---- MODULE Spec2Model ----
(***************************************************************************)
(* A model of the PNG decoder of png_to_ascii (src/src/lib.rs):            *)
(*   Image::from      the chunk loop, the legality pass, the decompression *)
(*   reverse_filter   the scanline defilterer, one row per step            *)
(*   paeth_predictor  the Paeth predictor                                  *)
(* Indices of the Rust code are 0-based; At(s, i) reads s[i] of the code.  *)
(* A panic of the code (index out of range, usize underflow, division by   *)
(* zero, expect on None, assert) ends the run with result = "panic"; an    *)
(* Err returned to the caller ends it with result = "err".                 *)
(***************************************************************************)
EXTENDS Integers, Sequences, FiniteSets, TLC

VARIABLES
    pc,               \* position in Image::from: "open", "chunks", "validate", "decompress", "filter", "paeth", "img", "done"
    result,           \* "none" while running, then "ok", "err" or "panic"
    image,            \* the Image under construction (lib.rs 226-254)
    compressed_data,  \* the accumulator of IDAT payloads (lib.rs 270)
    filtered,         \* the decompressed buffer handed to reverse_filter
    r,                \* the row index of reverse_filter's outer loop
    hist,             \* history of the records the chunk loop has read
    paeth,            \* arguments and return value of a call of paeth_predictor
    helper,           \* the ImageHelper: the file's bytes and the read offset (lib.rs 15-18)
    grid              \* the grid of Img (lib.rs 111-113)

vars == <<pc, result, image, compressed_data, filtered, r, hist, paeth, helper, grid>>

----------------------------------------------------------------------------
(* Bounds of the model *)

MaxHeight == 2        \* rows of a decompressed buffer
MaxFilteredLen == 10  \* bytes of a decompressed buffer, filter bytes included
MaxPaethDist == 4     \* paeth_predictor is tried on bytes within this distance of 0, 128 and 255

SampleBytes == {1, 255}                  \* the filtered sample bytes tried
FilterBytes == 0..5                      \* the filter-type bytes tried (5 is invalid)
PaethBytes ==
    {b \in 0..255 : b <= MaxPaethDist \/ b >= 255 - MaxPaethDist
                     \/ (b >= 128 - MaxPaethDist /\ b <= 128 + MaxPaethDist)}

----------------------------------------------------------------------------
(* Values *)

None == <<>>
Some(v) == <<v>>
IsSome(o) == Len(o) = 1
IsNone(o) == Len(o) = 0
Unwrap(o) == o[1]

PANIC == 0 - 1   \* a read or an index computation of the code that panics
INVALID == 0 - 2 \* a value the code rejects with Err

\* s[i] of the code: panics when i underflowed or is out of range
At(s, i) == IF i >= 0 /\ i < Len(s) THEN s[i + 1] ELSE PANIC

\* u8::wrapping_add; a panic in either operand's evaluation propagates
WrappingAdd(a, b) == IF a < 0 \/ b < 0 THEN PANIC ELSE (a + b) % 256

ToI16(x) == ((x + 32768) % 65536) - 32768

\* i16::abs_diff(0, x), a u16
AbsDiff0(x) == IF x < 0 THEN 0 - x ELSE x

ColorTypes == {"Greyscale", "RGB", "PaletteIndex", "GreyscaleAlpha", "RGBA"}

----------------------------------------------------------------------------
(* paeth_predictor *)

PaethPredictorLt(left, top, top_left) ==
    LET p == ToI16(ToI16(left + top) - top_left)
        pleft == AbsDiff0(ToI16(p - left))
        ptop == AbsDiff0(ToI16(p - top))
        ptop_left == AbsDiff0(ToI16(p - top_left))
    IN  IF pleft <= ptop /\ pleft <= ptop_left THEN left
        ELSE IF ptop < ptop_left THEN top
        ELSE top_left

paeth_predictor(left, top, top_left) ==
    LET p == ToI16(ToI16(left + top) - top_left)
        pleft == AbsDiff0(ToI16(p - left))
        ptop == AbsDiff0(ToI16(p - top))
        ptop_left == AbsDiff0(ToI16(p - top_left))
    IN  IF pleft <= ptop /\ pleft <= ptop_left THEN left
        ELSE IF ptop <= ptop_left THEN top
        ELSE top_left

\* the predictor applied to operands whose evaluation may have panicked
Predict(left, top, top_left) ==
    IF left < 0 \/ top < 0 \/ top_left < 0 THEN PANIC
    ELSE paeth_predictor(left, top, top_left)

----------------------------------------------------------------------------
(* reverse_filter *)

\* bytes per pixel
Bpp(color_type, bit_depth) ==
    CASE color_type = "Greyscale" -> IF bit_depth = 16 THEN 2 ELSE 1
      [] color_type = "RGB" -> IF bit_depth = 8 THEN 3 ELSE 6
      [] color_type = "PaletteIndex" -> 1
      [] color_type = "GreyscaleAlpha" -> IF bit_depth = 8 THEN 2 ELSE 4
      [] color_type = "RGBA" -> IF bit_depth = 8 THEN 4 ELSE 8

\* the row stride reverse_filter derives: filtered.len() / image.height
Stride(f, height) == Len(f) \div height

\* index into image.data of the byte bpp positions to the left of position c of row row
SubLeftNoRow(row, width, bpp, c) == ((row * width) + c) - bpp - 1

SubLeft(row, width, bpp, c) == ((row * width) + c) - bpp - 1 - row

\* the byte the Sub arm pushes for position c of row row
SubByte(f, d, row, width, bpp, c) ==
    LET x == (row * width) + c
    IN  IF c < bpp + 1 THEN At(f, x)
        ELSE WrappingAdd(At(f, x), At(d, SubLeft(row, width, bpp, c)))

\* the byte the Up arm pushes
UpByte(f, d, row, width, bpp, c) ==
    LET x == (row * width) + c
        prior == (row * (width - 1)) + c
    IN  IF row = 0 THEN At(f, x)
        ELSE WrappingAdd(At(f, x), At(f, x - prior))

\* the byte the Average arm pushes
AverageByte(f, d, row, width, bpp, c) ==
    LET x == (row * width) + c
        raw_x_bpp == IF c < bpp + 1 THEN 0 ELSE At(f, x - bpp - 1 - row)
        prior == IF row = 0 THEN 0 ELSE At(f, (row * (width - 1)) + c)
        floor == IF raw_x_bpp < 0 \/ prior < 0 THEN PANIC
                 ELSE ((raw_x_bpp + prior) \div 2) % 256
    IN  WrappingAdd(At(f, x), floor)

\* the byte the Paeth arm pushes
PaethByte(f, d, row, width, bpp, c) ==
    LET x == (row * width) + c
        top_idx == (row * (width - 1)) + c
        left == IF bpp > x THEN 0 ELSE At(f, x - bpp - 1 - row)
        top == IF row = 0 THEN 0 ELSE At(f, top_idx)
        top_left == IF row = 0 \/ c < bpp + 1 THEN 0 ELSE At(f, top_idx - bpp)
    IN  WrappingAdd(At(f, x), Predict(left, top, top_left))

FilterByte(ft, f, d, row, width, bpp, c) ==
    CASE ft = 1 -> SubByte(f, d, row, width, bpp, c)
      [] ft = 2 -> UpByte(f, d, row, width, bpp, c)
      [] ft = 3 -> AverageByte(f, d, row, width, bpp, c)
      [] ft = 4 -> PaethByte(f, d, row, width, bpp, c)

\* the loop "for c in 1..width" of the arms Sub, Up, Average and Paeth
RECURSIVE RowLoop(_, _, _, _, _, _, _)
RowLoop(ft, f, d, row, width, bpp, c) ==
    IF c >= width THEN [status |-> "ok", data |-> d]
    ELSE LET v == FilterByte(ft, f, d, row, width, bpp, c)
         IN  IF v < 0 THEN [status |-> "panic", data |-> d]
             ELSE RowLoop(ft, f, Append(d, v), row, width, bpp, c + 1)

\* the arm FilterType::None: image.data.extend(&filtered[rw + 1 .. rw + width])
NoneRow(f, d, row, width) ==
    LET lo == (row * width) + 1
        hi == (row * width) + width
    IN  IF lo > hi \/ hi > Len(f) THEN [status |-> "panic", data |-> d]
        ELSE [status |-> "ok", data |-> d \o SubSeq(f, lo + 1, hi)]

FilterTypeFromOrNone(byte) == IF byte \in 0..4 THEN byte ELSE 0

\* FilterType::from
FilterTypeFrom(byte) == IF byte \in 0..4 THEN byte ELSE INVALID

\* one iteration of the loop "for r in 0..image.height"
ReverseFilterRow(f, d, row, width, bpp) ==
    LET byte == At(f, row * width)
        ft == FilterTypeFrom(byte)
    IN  IF byte < 0 THEN [status |-> "panic", data |-> d]
        ELSE IF ft < 0 THEN [status |-> "err", data |-> d]
        ELSE IF ft = 0 THEN NoneRow(f, d, row, width)
        ELSE RowLoop(ft, f, d, row, width, bpp, 1)

----------------------------------------------------------------------------
(* Chunk::new and the chunk decoders *)

IgnoredTags == {"cHRM", "gAMA", "hIST", "pHYs", "sBIT", "tEXt", "tIME", "zTXT"}
KnownTags == {"IHDR", "PLTE", "IDAT", "IEND", "bKGD", "tRNS"} \cup IgnoredTags

\* big-endian u32 at data[i .. i + 4]
BE32(data, i) ==
    (data[i + 1] * 16777216) + (data[i + 2] * 65536) + (data[i + 3] * 256) + data[i + 4]

\* u16::from_be_bytes([data[i], data[i + 1]])
BE16(data, i) == (data[i + 1] * 256) + data[i + 2]

ColorTypeOf(byte) ==
    CASE byte = 0 -> "Greyscale"
      [] byte = 2 -> "RGB"
      [] byte = 3 -> "PaletteIndex"
      [] byte = 4 -> "GreyscaleAlpha"
      [] byte = 6 -> "RGBA"
      [] OTHER -> "invalid"

NoIhdr == [width |-> 0, height |-> 0, bit_depth |-> 0, color_type |-> "Greyscale",
           interlace_method |-> FALSE]

\* IHDRData::from: the fields are evaluated in order, so an invalid colour
\* byte returns Err before data[12] is read
IHDRDataFrom(data) ==
    IF Len(data) < 10 THEN [status |-> "panic", ihdr |-> NoIhdr]
    ELSE IF ColorTypeOf(data[10]) = "invalid" THEN [status |-> "err", ihdr |-> NoIhdr]
    ELSE IF Len(data) < 13 THEN [status |-> "panic", ihdr |-> NoIhdr]
    ELSE [status |-> "ok",
          ihdr |-> [width |-> BE32(data, 0),
                    height |-> BE32(data, 4),
                    bit_depth |-> data[9],
                    color_type |-> ColorTypeOf(data[10]),
                    interlace_method |-> (data[13] = 1)]]

\* the PLTE arm of Chunk::new: one entry per 3 bytes
PlteEntries(data) ==
    [i \in 1..(Len(data) \div 3) |-> <<data[(3 * i) - 2], data[(3 * i) - 1], data[3 * i]>>]

PlteFrom(data) ==
    IF Len(data) % 3 # 0 THEN [status |-> "err", plte |-> <<>>]
    ELSE [status |-> "ok", plte |-> PlteEntries(data)]

NoBkgd == [kind |-> "none", v |-> <<>>]

\* the bKGD arm of Chunk::new
BkgdFrom(data) ==
    CASE Len(data) = 1 -> [status |-> "ok", bkgd |-> [kind |-> "PaletteIndex", v |-> <<data[1]>>]]
      [] Len(data) = 2 -> [status |-> "ok", bkgd |-> [kind |-> "Greyscale", v |-> <<BE16(data, 0)>>]]
      [] Len(data) = 6 -> [status |-> "ok",
                           bkgd |-> [kind |-> "RGB",
                                     v |-> <<BE16(data, 0), BE16(data, 2), BE16(data, 4)>>]]
      [] OTHER -> [status |-> "err", bkgd |-> NoBkgd]

----------------------------------------------------------------------------
(* Transparancy *)

NoTrns == [kind |-> "none", v |-> <<>>]

for_indexed_color(data, plte_len) ==
    IF Len(data) > plte_len THEN [status |-> "err", trns |-> NoTrns]
    ELSE [status |-> "ok",
          trns |-> [kind |-> "PaletteIndex",
                    v |-> data \o [i \in 1..(plte_len - Len(data)) |-> 255]]]

for_grayscale(data) ==
    IF Len(data) # 2 THEN [status |-> "err", trns |-> NoTrns]
    ELSE [status |-> "ok", trns |-> [kind |-> "Greyscale", v |-> <<BE16(data, 0)>>]]

for_rgb(data) ==
    IF Len(data) # 6 THEN [status |-> "err", trns |-> NoTrns]
    ELSE [status |-> "ok",
          trns |-> [kind |-> "RGB", v |-> <<BE16(data, 0), BE16(data, 2), BE16(data, 4)>>]]

----------------------------------------------------------------------------
(* The arms of the chunk loop of Image::from *)

IhdrArm(img, ihdr) ==
    [status |-> "ok",
     image |-> [img EXCEPT !.width = ihdr.width,
                           !.height = ihdr.height,
                           !.bit_depth = ihdr.bit_depth,
                           !.color_type = ihdr.color_type,
                           !.interlaced = ihdr.interlace_method]]

PlteArmNoDuplicateCheck(img, plte) ==
    IF IsSome(img.background) THEN [status |-> "err", image |-> img]
    ELSE [status |-> "ok", image |-> [img EXCEPT !.plte = Some(plte)]]

PlteArmNoBackgroundCheck(img, plte) ==
    IF IsSome(img.plte) THEN [status |-> "err", image |-> img]
    ELSE [status |-> "ok", image |-> [img EXCEPT !.plte = Some(plte)]]

PlteArm(img, plte) ==
    IF IsSome(img.plte) THEN [status |-> "err", image |-> img]
    ELSE IF IsSome(img.background) THEN [status |-> "err", image |-> img]
    ELSE [status |-> "ok", image |-> [img EXCEPT !.plte = Some(plte)]]

\* the shape of background the colour type admits
BkgdKindFor(color_type) ==
    CASE color_type = "PaletteIndex" -> "PaletteIndex"
      [] color_type \in {"Greyscale", "GreyscaleAlpha"} -> "Greyscale"
      [] color_type \in {"RGB", "RGBA"} -> "RGB"

BkgdArm(img, compressed, background) ==
    IF compressed # <<>> THEN [status |-> "err", image |-> img]
    ELSE IF background.kind # BkgdKindFor(img.color_type) THEN [status |-> "err", image |-> img]
    ELSE [status |-> "ok", image |-> [img EXCEPT !.background = Some(background)]]

TrnsArm(img, data) ==
    LET conv == CASE img.color_type = "PaletteIndex" ->
                       IF IsNone(img.plte) THEN [status |-> "panic", trns |-> NoTrns]
                       ELSE for_indexed_color(data, Len(Unwrap(img.plte)))
                  [] img.color_type = "Greyscale" -> for_grayscale(data)
                  [] img.color_type = "RGB" -> for_rgb(data)
                  [] OTHER -> [status |-> "err", trns |-> NoTrns]
    IN  IF conv.status = "ok"
        THEN [status |-> "ok", image |-> [img EXCEPT !.transparancy = Some(conv.trns)]]
        ELSE [status |-> conv.status, image |-> img]

----------------------------------------------------------------------------
(* The legality pass of Image::from *)

\* 2usize.pow(n)
RECURSIVE Pow2(_)
Pow2(n) == IF n = 0 THEN 1 ELSE 2 * Pow2(n - 1)

LegalityPassRgbAnyDepth(img) ==
    CASE img.color_type = "Greyscale" ->
            IF img.bit_depth \notin {1, 2, 4, 8, 16} THEN "err"
            ELSE IF IsSome(img.plte) THEN "err"
            ELSE "ok"
      [] img.color_type = "GreyscaleAlpha" ->
            IF img.bit_depth \notin {8, 16} THEN "err"
            ELSE IF IsSome(img.plte) THEN "err"
            ELSE "ok"
      [] img.color_type = "PaletteIndex" ->
            IF img.bit_depth \notin {1, 2, 4, 8} THEN "err"
            ELSE IF IsNone(img.plte) THEN "err"
            ELSE IF Len(Unwrap(img.plte)) > Pow2(img.bit_depth) THEN "err"
            ELSE "ok"
      [] img.color_type \in {"RGB", "RGBA"} -> "ok"

LegalityPass(img) ==
    CASE img.color_type = "Greyscale" ->
            IF img.bit_depth \notin {1, 2, 4, 8, 16} THEN "err"
            ELSE IF IsSome(img.plte) THEN "err"
            ELSE "ok"
      [] img.color_type = "GreyscaleAlpha" ->
            IF img.bit_depth \notin {8, 16} THEN "err"
            ELSE IF IsSome(img.plte) THEN "err"
            ELSE "ok"
      [] img.color_type = "PaletteIndex" ->
            IF img.bit_depth \notin {1, 2, 4, 8} THEN "err"
            ELSE IF IsNone(img.plte) THEN "err"
            ELSE IF Len(Unwrap(img.plte)) > Pow2(img.bit_depth) THEN "err"
            ELSE "ok"
      [] img.color_type \in {"RGB", "RGBA"} ->
            IF img.bit_depth \notin {8, 16} THEN "err" ELSE "ok"

----------------------------------------------------------------------------
(* Inputs tried *)

MaxChunks == 3        \* records of a stream before its IEND record
MaxWidth == 1         \* the header's width
MaxHdrHeight == 1     \* the header's height in a whole decode
MaxPlteLen == 6       \* bytes of a PLTE payload
MaxIdatLen == 1       \* bytes of an IDAT payload
MaxDecompressedLen == 3   \* bytes the decompressor returns in a whole decode

BitDepthBytes == {1, 3, 8, 16}
ColorTypeBytes == {0, 1, 2, 3, 4, 6}
InterlaceBytes == {0}
IhdrLens == {13}
BkgdLens == {1, 2, 3, 6}
TrnsLens == {0, 1, 2, 6}
DecompressedBytes == {1}

\* a payload of len bytes whose i-th byte is 10 * i
Payload(len) == [i \in 1..len |-> 10 * i]

\* the bytes of an IHDR payload that declares the given fields
IhdrPayload(w, h, bd, ct, il, len) ==
    SubSeq(<<0, 0, 0, w, 0, 0, 0, h, bd, ct, 0, 0, il, 0>>, 1, len)

\* byte sequences of length 0..n over the set b
RECURSIVE SeqsUpTo(_, _)
SeqsUpTo(b, n) ==
    IF n = 0 THEN {<<>>}
    ELSE LET shorter == SeqsUpTo(b, n - 1)
         IN  shorter \cup {Append(s, x) : s \in {t \in shorter : Len(t) = n - 1}, x \in b}

----------------------------------------------------------------------------
(* State *)

\* the reader of a decode whose file is not modelled byte by byte
NoHelper == [offset |-> 0, data |-> <<>>]

NewImage == [width |-> 0, height |-> 0, bit_depth |-> 0, color_type |-> "Greyscale",
             interlaced |-> FALSE, data |-> <<>>, plte |-> None, background |-> None,
             transparancy |-> None]

\* n: chunks read; ihdr_first: the first chunk read was an IHDR chunk;
\* ihdr, plte, idat, bkgd, trns, iend: records of that type Chunk::new has
\* handed to the chunk loop; len: payload length of the latest chunk read
NoHist == [n |-> 0, ihdr_first |-> FALSE, ihdr |-> 0, plte |-> 0, idat |-> 0, bkgd |-> 0,
           trns |-> 0, iend |-> 0, len |-> 0]

NoPaeth == [left |-> 0, top |-> 0, top_left |-> 0, ret |-> PANIC]

Read(tag, ok, len) ==
    [hist EXCEPT !.n = @ + 1,
                 !.len = len,
                 !.ihdr_first = IF hist.n = 0 THEN tag = "IHDR" ELSE @,
                 !.ihdr = IF ok /\ tag = "IHDR" THEN @ + 1 ELSE @,
                 !.plte = IF ok /\ tag = "PLTE" THEN @ + 1 ELSE @,
                 !.idat = IF ok /\ tag = "IDAT" THEN @ + 1 ELSE @,
                 !.bkgd = IF ok /\ tag = "bKGD" THEN @ + 1 ELSE @,
                 !.trns = IF ok /\ tag = "tRNS" THEN @ + 1 ELSE @,
                 !.iend = IF ok /\ tag = "IEND" THEN @ + 1 ELSE @]

Init ==
    /\ pc = "chunks"
    /\ result = "none"
    /\ image = NewImage
    /\ compressed_data = <<>>
    /\ filtered = <<>>
    /\ r = 0
    /\ hist = NoHist
    /\ paeth = NoPaeth
    /\ helper = NoHelper
    /\ grid = <<>>

\* the chunk loop goes on, or Image::from returns Err or panics
Continue(status, img) ==
    /\ image' = img
    /\ IF status = "ok"
       THEN pc' = "chunks" /\ result' = "none"
       ELSE pc' = "done" /\ result' = status

----------------------------------------------------------------------------
(* The chunk loop: chunks.next() and the arm of the record it returns *)

ReadIHDR ==
    /\ pc = "chunks" /\ hist.n < MaxChunks
    /\ \E w \in 1..MaxWidth, h \in 0..MaxHdrHeight, bd \in BitDepthBytes,
          ct \in ColorTypeBytes, il \in InterlaceBytes, len \in IhdrLens :
          LET dec == IHDRDataFrom(IhdrPayload(w, h, bd, ct, il, len))
              arm == IhdrArm(image, dec.ihdr)
          IN  /\ hist' = Read("IHDR", dec.status = "ok", len)
              /\ IF dec.status = "ok" THEN Continue(arm.status, arm.image)
                 ELSE Continue(dec.status, image)
    /\ UNCHANGED <<compressed_data, filtered, r, paeth, helper, grid>>

ReadPLTE ==
    /\ pc = "chunks" /\ hist.n < MaxChunks
    /\ \E len \in 0..MaxPlteLen :
          LET dec == PlteFrom(Payload(len))
              arm == PlteArm(image, dec.plte)
          IN  /\ hist' = Read("PLTE", dec.status = "ok", len)
              /\ IF dec.status = "ok" THEN Continue(arm.status, arm.image)
                 ELSE Continue(dec.status, image)
    /\ UNCHANGED <<compressed_data, filtered, r, paeth, helper, grid>>

ReadIDAT ==
    /\ pc = "chunks" /\ hist.n < MaxChunks
    /\ \E len \in 0..MaxIdatLen :
          /\ compressed_data' = compressed_data \o Payload(len)
          /\ hist' = Read("IDAT", TRUE, len)
    /\ UNCHANGED <<pc, result, image, filtered, r, paeth, helper, grid>>

ReadBKGD ==
    /\ pc = "chunks" /\ hist.n < MaxChunks
    /\ \E len \in BkgdLens :
          LET dec == BkgdFrom(Payload(len))
              arm == BkgdArm(image, compressed_data, dec.bkgd)
          IN  /\ hist' = Read("bKGD", dec.status = "ok", len)
              /\ IF dec.status = "ok" THEN Continue(arm.status, arm.image)
                 ELSE Continue(dec.status, image)
    /\ UNCHANGED <<compressed_data, filtered, r, paeth, helper, grid>>

ReadTRNS ==
    /\ pc = "chunks" /\ hist.n < MaxChunks
    /\ \E len \in TrnsLens :
          LET arm == TrnsArm(image, Payload(len))
          IN  /\ hist' = Read("tRNS", TRUE, len)
              /\ Continue(arm.status, arm.image)
    /\ UNCHANGED <<compressed_data, filtered, r, paeth, helper, grid>>

ReadIgnored ==
    /\ pc = "chunks" /\ hist.n < MaxChunks
    /\ \E tag \in IgnoredTags : hist' = Read(tag, TRUE, 0)
    /\ UNCHANGED <<pc, result, image, compressed_data, filtered, r, paeth, helper, grid>>

\* a tag outside the allow-list
ReadUnknown ==
    /\ pc = "chunks" /\ hist.n < MaxChunks
    /\ hist' = Read("abCD", FALSE, 0)
    /\ pc' = "done" /\ result' = "err"
    /\ UNCHANGED <<image, compressed_data, filtered, r, paeth, helper, grid>>

\* the buffer ends inside the chunk: a slice of Chunk::new is out of range
ReadPastEnd ==
    /\ pc = "chunks"
    /\ pc' = "done" /\ result' = "panic"
    /\ UNCHANGED <<image, compressed_data, filtered, r, hist, paeth, helper, grid>>

ReadIEND ==
    /\ pc = "chunks"
    /\ \E len \in 0..1 :
          /\ hist' = Read("IEND", len = 0, len)
          /\ IF len # 0 THEN pc' = "done" /\ result' = "err"
             ELSE pc' = "validate" /\ result' = "none"
    /\ UNCHANGED <<image, compressed_data, filtered, r, paeth, helper, grid>>

----------------------------------------------------------------------------
(* After the loop *)

Validate ==
    /\ pc = "validate"
    /\ IF LegalityPass(image) = "ok" THEN pc' = "decompress" /\ result' = "none"
       ELSE pc' = "done" /\ result' = "err"
    /\ UNCHANGED <<image, compressed_data, filtered, r, hist, paeth, helper, grid>>

\* ZlibDecoder::read_to_end: an io error, or the expanded buffer, which the
\* code does not check against the header
Decompress ==
    /\ pc = "decompress"
    /\ \/ /\ pc' = "done" /\ result' = "err"
          /\ UNCHANGED filtered
       \/ /\ compressed_data # <<>>
          /\ filtered' \in SeqsUpTo(DecompressedBytes, MaxDecompressedLen)
          /\ pc' = "filter" /\ result' = "none"
    /\ UNCHANGED <<image, compressed_data, r, hist, paeth, helper, grid>>

\* reverse_filter: the division of line 474 when r = 0, then row r
ReverseFilterStep ==
    /\ pc = "filter"
    /\ IF image.height = 0
       THEN /\ pc' = "done" /\ result' = "panic"
            /\ UNCHANGED <<image, r>>
       ELSE LET row == ReverseFilterRow(filtered, image.data, r,
                                        Stride(filtered, image.height),
                                        Bpp(image.color_type, image.bit_depth))
            IN  /\ image' = [image EXCEPT !.data = row.data]
                /\ IF row.status # "ok"
                   THEN pc' = "done" /\ result' = row.status /\ UNCHANGED r
                   ELSE /\ r' = r + 1
                        /\ IF r + 1 = image.height
                           THEN pc' = "done" /\ result' = "ok"
                           ELSE pc' = "filter" /\ result' = "none"
    /\ UNCHANGED <<compressed_data, filtered, hist, paeth, helper, grid>>

Next ==
    \/ ReadIHDR
    \/ ReadPLTE
    \/ ReadIDAT
    \/ ReadBKGD
    \/ ReadTRNS
    \/ ReadIgnored
    \/ ReadUnknown
    \/ ReadPastEnd
    \/ ReadIEND
    \/ Validate
    \/ Decompress
    \/ ReverseFilterStep

Spec == Init /\ [][Next]_vars

----------------------------------------------------------------------------
(* reverse_filter on its own: the image has passed the legality pass and   *)
(* the decompressor has returned height rows of 1 + row_bytes bytes        *)

\* the legal headers of 8 or 16 bits per sample whose rows have row_bytes bytes
FilterHeaders(row_bytes) ==
    {h \in [color_type : ColorTypes, bit_depth : {8, 16}, width : 1..row_bytes] :
        /\ h.color_type = "PaletteIndex" => h.bit_depth = 8
        /\ h.width * Bpp(h.color_type, h.bit_depth) = row_bytes}

\* the rows tried: a filter-type byte, then row_bytes sample bytes
FilterRows(row_bytes) ==
    {<<ft>> \o s : ft \in FilterBytes, s \in [1..row_bytes -> SampleBytes]}

RECURSIVE Flatten(_)
Flatten(rows) == IF rows = <<>> THEN <<>> ELSE Head(rows) \o Flatten(Tail(rows))

InitFilter ==
    /\ pc = "filter"
    /\ result = "none"
    /\ \E height \in 1..MaxHeight, row_bytes \in 1..MaxFilteredLen :
          /\ height * (1 + row_bytes) <= MaxFilteredLen
          /\ \E h \in FilterHeaders(row_bytes), rows \in [1..height -> FilterRows(row_bytes)] :
                /\ image = [NewImage EXCEPT !.width = h.width,
                                            !.height = height,
                                            !.bit_depth = h.bit_depth,
                                            !.color_type = h.color_type,
                                            !.plte = IF h.color_type = "PaletteIndex"
                                                     THEN Some(PlteEntries(Payload(3)))
                                                     ELSE None]
                /\ filtered = Flatten(rows)
    /\ compressed_data = Payload(1)
    /\ r = 0
    /\ hist = [NoHist EXCEPT !.n = 2, !.ihdr_first = TRUE, !.ihdr = 1, !.idat = 1]
    /\ paeth = NoPaeth
    /\ helper = NoHelper
    /\ grid = <<>>

NextFilter == ReverseFilterStep

SpecFilter == InitFilter /\ [][NextFilter]_vars

----------------------------------------------------------------------------
(* paeth_predictor on its own *)

InitPaeth ==
    /\ pc = "paeth"
    /\ result = "none"
    /\ image = NewImage
    /\ compressed_data = <<>>
    /\ filtered = <<>>
    /\ r = 0
    /\ hist = NoHist
    /\ \E left \in PaethBytes, top \in PaethBytes, top_left \in PaethBytes :
          paeth = [left |-> left, top |-> top, top_left |-> top_left, ret |-> PANIC]
    /\ helper = NoHelper
    /\ grid = <<>>

PaethCall ==
    /\ pc = "paeth"
    /\ paeth' = [paeth EXCEPT !.ret = paeth_predictor(paeth.left, paeth.top, paeth.top_left)]
    /\ pc' = "done" /\ result' = "ok"
    /\ UNCHANGED <<image, compressed_data, filtered, r, hist, helper, grid>>

NextPaeth == PaethCall

SpecPaeth == InitPaeth /\ [][NextPaeth]_vars

----------------------------------------------------------------------------
(* The reader, byte by byte: ImageHelper and Chunk::new *)

PNG_HDR == <<137, 80, 78, 71, 13, 10, 26, 10>>

\* the bytes of the tags that Chunk::new matches
TagBytes ==
    [IHDR |-> <<73, 72, 68, 82>>, PLTE |-> <<80, 76, 84, 69>>,
     IDAT |-> <<73, 68, 65, 84>>, IEND |-> <<73, 69, 78, 68>>,
     bKGD |-> <<98, 75, 71, 68>>, cHRM |-> <<99, 72, 82, 77>>,
     gAMA |-> <<103, 65, 77, 65>>, hIST |-> <<104, 73, 83, 84>>,
     pHYs |-> <<112, 72, 89, 115>>, sBIT |-> <<115, 66, 73, 84>>,
     tEXt |-> <<116, 69, 88, 116>>, tIME |-> <<116, 73, 77, 69>>,
     tRNS |-> <<116, 82, 78, 83>>, zTXT |-> <<122, 84, 88, 84>>]

\* the string the match of line 654 compares: the tag whose bytes these are,
\* "other" for every other 4 bytes
TagOf(bytes) ==
    IF \E t \in KnownTags : TagBytes[t] = bytes
    THEN CHOOSE t \in KnownTags : TagBytes[t] = bytes
    ELSE "other"

ChunkOfTagSkipUnknown(tag, data) ==
    CASE tag = "IHDR" -> LET d == IHDRDataFrom(data) IN [status |-> d.status, v |-> d.ihdr]
      [] tag = "PLTE" -> LET d == PlteFrom(data) IN [status |-> d.status, v |-> d.plte]
      [] tag = "IDAT" -> [status |-> "ok", v |-> data]
      [] tag = "IEND" -> [status |-> IF Len(data) # 0 THEN "err" ELSE "ok", v |-> <<>>]
      [] tag = "bKGD" -> LET d == BkgdFrom(data) IN [status |-> d.status, v |-> d.bkgd]
      [] tag \in IgnoredTags -> [status |-> "ok", v |-> <<>>]
      [] tag = "tRNS" -> [status |-> "ok", v |-> data]
      [] OTHER -> [status |-> "ok", v |-> <<>>]

\* the match of Chunk::new on the tag: the record of the chunk, or an error
ChunkOfTag(tag, data) ==
    CASE tag = "IHDR" -> LET d == IHDRDataFrom(data) IN [status |-> d.status, v |-> d.ihdr]
      [] tag = "PLTE" -> LET d == PlteFrom(data) IN [status |-> d.status, v |-> d.plte]
      [] tag = "IDAT" -> [status |-> "ok", v |-> data]
      [] tag = "IEND" -> [status |-> IF Len(data) # 0 THEN "err" ELSE "ok", v |-> <<>>]
      [] tag = "bKGD" -> LET d == BkgdFrom(data) IN [status |-> d.status, v |-> d.bkgd]
      [] tag \in IgnoredTags -> [status |-> "ok", v |-> <<>>]
      [] tag = "tRNS" -> [status |-> "ok", v |-> data]
      [] OTHER -> [status |-> "err", v |-> <<>>]

ChunkNewNoCrcSkip(data, offset) ==
    IF offset + 4 > Len(data)
    THEN [status |-> "panic", tag |-> "none", len |-> 0, v |-> <<>>, offset |-> offset]
    ELSE LET len == BE32(data, offset)
             start == offset + 8
         IN  IF start + len > Len(data)
             THEN [status |-> "panic", tag |-> "none", len |-> len, v |-> <<>>,
                   offset |-> start]
             ELSE LET tag == TagOf(SubSeq(data, start - 3, start))
                      chunk == ChunkOfTag(tag, SubSeq(data, start + 1, start + len))
                  IN  IF chunk.status # "ok"
                      THEN [status |-> chunk.status, tag |-> tag, len |-> len, v |-> <<>>,
                            offset |-> start]
                      ELSE [status |-> "ok", tag |-> tag, len |-> len, v |-> chunk.v,
                            offset |-> start + len]

\* Chunk::new at the given offset, in the order of its statements: the length
\* slice, the payload slice, the match on the tag, the CRC slice. A slice
\* that ends past the buffer panics. tag is "none" until the tag is read;
\* offset is image.offset when the function is left.
ChunkNew(data, offset) ==
    IF offset + 4 > Len(data)
    THEN [status |-> "panic", tag |-> "none", len |-> 0, v |-> <<>>, offset |-> offset]
    ELSE LET len == BE32(data, offset)
             start == offset + 8
         IN  IF start + len > Len(data)
             THEN [status |-> "panic", tag |-> "none", len |-> len, v |-> <<>>,
                   offset |-> start]
             ELSE LET tag == TagOf(SubSeq(data, start - 3, start))
                      chunk == ChunkOfTag(tag, SubSeq(data, start + 1, start + len))
                  IN  IF chunk.status # "ok"
                      THEN [status |-> chunk.status, tag |-> tag, len |-> len, v |-> <<>>,
                            offset |-> start]
                      ELSE IF start + len + 4 > Len(data)
                      THEN [status |-> "panic", tag |-> tag, len |-> len, v |-> <<>>,
                            offset |-> start + len]
                      ELSE [status |-> "ok", tag |-> tag, len |-> len, v |-> chunk.v,
                            offset |-> start + len + 4]

\* the arm of the chunk loop for the record v of a chunk with this tag
LoopArm(img, compressed, tag, v) ==
    LET arm == CASE tag = "IHDR" -> IhdrArm(img, v)
                 [] tag = "PLTE" -> PlteArm(img, v)
                 [] tag = "bKGD" -> BkgdArm(img, compressed, v)
                 [] tag = "tRNS" -> TrnsArm(img, v)
                 [] OTHER -> [status |-> "ok", image |-> img]
    IN  [status |-> arm.status, image |-> arm.image,
         compressed_data |-> IF tag = "IDAT" THEN compressed \o v ELSE compressed]

\* the chunk loop of Image::from run to its end on a buffer: "end" when
\* next() returned None, else the error or panic that stopped it
RECURSIVE DecodeChunks(_, _, _, _)
DecodeChunks(data, offset, img, compressed) ==
    LET c == ChunkNew(data, offset)
        arm == LoopArm(img, compressed, c.tag, c.v)
    IN  IF c.status # "ok"
        THEN [status |-> c.status, image |-> img, compressed_data |-> compressed]
        ELSE IF c.tag = "IEND"
        THEN [status |-> "end", image |-> img, compressed_data |-> compressed]
        ELSE IF arm.status # "ok"
        THEN [status |-> arm.status, image |-> arm.image,
              compressed_data |-> arm.compressed_data]
        ELSE DecodeChunks(data, c.offset, arm.image, arm.compressed_data)

\* ImageHelper::from: the file cannot be read, or the signature is checked
\* with a slice and an assert_eq!, each of which panics
Open ==
    /\ pc = "open"
    /\ \/ /\ pc' = "done" /\ result' = "err"
          /\ UNCHANGED helper
       \/ IF Len(helper.data) < 8 \/ SubSeq(helper.data, 1, 8) # PNG_HDR
          THEN /\ pc' = "done" /\ result' = "panic"
               /\ UNCHANGED helper
          ELSE /\ pc' = "chunks" /\ result' = "none"
               /\ helper' = [helper EXCEPT !.offset = 8]
    /\ UNCHANGED <<image, compressed_data, filtered, r, hist, paeth, grid>>

\* chunks.next() and the arm of the chunk loop for what it returns
NextChunk ==
    /\ pc = "chunks"
    /\ LET c == ChunkNew(helper.data, helper.offset)
           arm == LoopArm(image, compressed_data, c.tag, c.v)
       IN  /\ helper' = [helper EXCEPT !.offset = c.offset]
           /\ hist' = IF c.tag = "none" THEN hist ELSE Read(c.tag, c.status = "ok", c.len)
           /\ IF c.status # "ok"
              THEN /\ pc' = "done" /\ result' = c.status
                   /\ UNCHANGED <<image, compressed_data>>
              ELSE IF c.tag = "IEND"
              THEN /\ pc' = "validate" /\ result' = "none"
                   /\ UNCHANGED <<image, compressed_data>>
              ELSE /\ Continue(arm.status, arm.image)
                   /\ compressed_data' = arm.compressed_data
    /\ UNCHANGED <<filtered, r, paeth, grid>>

MaxFileChunks == 3    \* chunks encoded in a file
MaxCut == 5           \* bytes missing at the end of a file

FileIhdrLens == {12, 13, 14}
FileColorBytes == {0, 1}
FilePayloadLens == {<<"PLTE", 3>>, <<"IDAT", 1>>, <<"IEND", 0>>, <<"IEND", 1>>,
                    <<"bKGD", 2>>, <<"gAMA", 1>>, <<"tRNS", 2>>}
OtherTagBytes == <<97, 98, 67, 68>>
Signatures == {PNG_HDR, [PNG_HDR EXCEPT ![1] = 138]}

\* the chunks a file is made of: tag bytes and payload
FileChunks ==
    {[tag |-> TagBytes.IHDR, payload |-> IhdrPayload(1, 1, 8, ct, 0, len)] :
        ct \in FileColorBytes, len \in FileIhdrLens}
    \cup {[tag |-> TagBytes[tl[1]], payload |-> Payload(tl[2])] : tl \in FilePayloadLens}
    \cup {[tag |-> OtherTagBytes, payload |-> Payload(1)]}

\* a chunk as it lies in a file: length, tag, payload and a CRC, which is not
\* looked at
Encode(chunk) ==
    LET len == Len(chunk.payload)
    IN  <<(len \div 16777216) % 256, (len \div 65536) % 256, (len \div 256) % 256, len % 256>>
        \o chunk.tag \o chunk.payload \o <<0, 0, 0, 0>>

RECURSIVE EncodeAll(_)
EncodeAll(chunks) ==
    IF chunks = <<>> THEN <<>> ELSE Encode(Head(chunks)) \o EncodeAll(Tail(chunks))

InitReader ==
    /\ pc = "open"
    /\ result = "none"
    /\ image = NewImage
    /\ compressed_data = <<>>
    /\ filtered = <<>>
    /\ r = 0
    /\ hist = NoHist
    /\ paeth = NoPaeth
    /\ \E sig \in Signatures, chunks \in SeqsUpTo(FileChunks, MaxFileChunks), cut \in 0..MaxCut :
          LET file == sig \o EncodeAll(chunks)
          IN  helper = [offset |-> 0, data |-> SubSeq(file, 1, Len(file) - cut)]
    /\ grid = <<>>

NextReader == Open \/ NextChunk \/ Validate \/ Decompress \/ ReverseFilterStep

SpecReader == InitReader /\ [][NextReader]_vars

----------------------------------------------------------------------------
(* Img::new: the grid of averaged pixels *)

\* samples of a pixel
Channels(color_type) ==
    CASE color_type \in {"Greyscale", "PaletteIndex"} -> 1
      [] color_type = "GreyscaleAlpha" -> 2
      [] color_type = "RGB" -> 3
      [] color_type = "RGBA" -> 4

\* pixle_size; unimplemented! panics
PixleSize(color_type, bit_depth) ==
    CASE color_type = "Greyscale" -> IF bit_depth = 16 THEN PANIC ELSE 1
      [] color_type = "RGB" -> IF bit_depth = 8 THEN 3 ELSE PANIC
      [] color_type = "PaletteIndex" -> 1
      [] color_type = "GreyscaleAlpha" -> IF bit_depth = 8 THEN 2 ELSE PANIC
      [] color_type = "RGBA" -> IF bit_depth = 8 THEN 4 ELSE PANIC

RECURSIVE Sum(_)
Sum(s) == IF s = <<>> THEN 0 ELSE Head(s) + Sum(Tail(s))

\* (a + b + ...) / n of bytes read with an index; a panic of a read propagates
Mean(bytes) ==
    IF \E i \in 1..Len(bytes) : bytes[i] < 0 THEN PANIC ELSE Sum(bytes) \div Len(bytes)

\* the match on image.color_type that computes value from image.data[idx ..]
GridValue(img, idx) ==
    CASE img.color_type = "Greyscale" -> At(img.data, idx)
      [] img.color_type = "RGB" ->
            Mean(<<At(img.data, idx), At(img.data, idx + 1), At(img.data, idx + 2)>>)
      [] img.color_type = "PaletteIndex" ->
            IF IsNone(img.plte) THEN PANIC
            ELSE LET plte == Unwrap(img.plte)
                     i == At(img.data, idx)
                 IN  IF i < 0 \/ i >= Len(plte) THEN PANIC ELSE Mean(plte[i + 1])
      [] img.color_type = "GreyscaleAlpha" ->
            Mean(<<At(img.data, idx), At(img.data, idx + 1)>>)
      [] img.color_type = "RGBA" ->
            Mean(<<At(img.data, idx), At(img.data, idx + 1), At(img.data, idx + 2),
                   At(img.data, idx + 3)>>)

\* the two loops of Img::new, with idx as line 151 computes it
Grid(img) ==
    LET pixle_size == PixleSize(img.color_type, img.bit_depth)
        rows == [row \in 1..img.height |->
                    [col \in 1..img.width |->
                        GridValue(img, ((col - 1) * pixle_size) + ((row - 1) * img.width))]]
    IN  IF pixle_size < 0 THEN [status |-> "panic", grid |-> <<>>]
        ELSE IF \E row \in 1..img.height, col \in 1..img.width : rows[row][col] < 0
        THEN [status |-> "panic", grid |-> <<>>]
        ELSE [status |-> "ok", grid |-> rows]

MaxImgWidth == 2      \* width of a decoded image handed to Img::new
MaxImgHeight == 2     \* its height
MaxImgBytes == 8      \* length of its sample buffer

ImgBytes == {1, 255}
ImgDepths == {8, 16}

\* Image::from has returned an image whose buffer holds width * height pixels
InitImg ==
    /\ pc = "img"
    /\ result = "none"
    /\ \E ct \in ColorTypes, bd \in ImgDepths, w \in 1..MaxImgWidth, h \in 1..MaxImgHeight :
          /\ ct = "PaletteIndex" => bd = 8
          /\ w * h * Channels(ct) <= MaxImgBytes
          /\ \E data \in [1..(w * h * Channels(ct)) -> ImgBytes] :
                image = [NewImage EXCEPT !.width = w, !.height = h, !.bit_depth = bd,
                                         !.color_type = ct, !.data = data,
                                         !.plte = IF ct = "PaletteIndex"
                                                  THEN Some(PlteEntries(Payload(6)))
                                                  ELSE None]
    /\ compressed_data = Payload(1)
    /\ filtered = <<>>
    /\ r = 0
    /\ hist = [NoHist EXCEPT !.n = 3, !.ihdr_first = TRUE, !.ihdr = 1, !.idat = 1, !.iend = 1]
    /\ paeth = NoPaeth
    /\ helper = NoHelper
    /\ grid = <<>>

ImgNew ==
    /\ pc = "img"
    /\ LET g == Grid(image)
       IN  /\ grid' = g.grid
           /\ pc' = "done" /\ result' = g.status
    /\ UNCHANGED <<image, compressed_data, filtered, r, hist, paeth, helper>>

NextImg == ImgNew

SpecImg == InitImg /\ [][NextImg]_vars


----------------------------------------------------------------------------
(* The scanline claims, read off the state of reverse_filter.  Rows 0..r-1 *)
(* are reconstructed; positions c of a row count from 1, position 0 being  *)
(* the filter-type byte.                                                   *)

RowStride == Stride(filtered, image.height)
RowBpp == Bpp(image.color_type, image.bit_depth)
Positions == 1..(RowStride - 1)

\* the filter-type byte of a row, and the filtered byte at position c of it
FilterOf(row) == filtered[(row * RowStride) + 1]
Flt(row, c) == filtered[(row * RowStride) + c + 1]

\* the reconstructed byte at position c of a row; 0 where no such byte exists
Raw(row, c) == IF row < 0 \/ c < 1 THEN 0 ELSE image.data[(row * (RowStride - 1)) + c]

InFilter == pc \in {"filter", "done"} /\ image.height > 0

\* C1: every reconstructed row of filter type 2 (Up) holds, at every position c,
\* the filtered byte plus the reconstructed byte of the row above at c, mod 256,
\* and just the filtered byte in row 0.
C1_UpAddsRowAbove ==
    InFilter =>
        \A row \in 0..(r - 1) : FilterOf(row) = 2 =>
            \A c \in Positions : Raw(row, c) = (Flt(row, c) + Raw(row - 1, c)) % 256

\* C2: a row of filter type 1 (Sub), the first or a later one, is reconstructed
\* without a panic and holds, at every position c, the filtered byte when
\* c <= bpp and otherwise the filtered byte plus the reconstructed byte bpp
\* positions to its left, mod 256.
C2_SubAddsLeft ==
    InFilter =>
        /\ result = "panic" => FilterOf(r) # 1
        /\ \A row \in 0..(r - 1) : FilterOf(row) = 1 =>
              \A c \in Positions :
                 Raw(row, c) = IF c <= RowBpp THEN Flt(row, c)
                               ELSE (Flt(row, c) + Raw(row, c - RowBpp)) % 256

\* a Sub row after the first has been reconstructed, with a left neighbour
\* whose addition wrapped
C2_Witness ==
    /\ InFilter /\ r = 2 /\ FilterOf(1) = 1
    /\ \E c \in Positions : c > RowBpp /\ Flt(1, c) + Raw(1, c - RowBpp) >= 256

\* C3: every reconstructed row of filter type 3 (Average) holds, at every
\* position c, the filtered byte plus floor((L + A) / 2), mod 256, where L is
\* the reconstructed byte bpp positions to the left (0 when c <= bpp) and A the
\* reconstructed byte of the row above at c (0 in row 0).
C3_AverageAddsMean ==
    InFilter =>
        \A row \in 0..(r - 1) : FilterOf(row) = 3 =>
            \A c \in Positions :
               Raw(row, c) =
                  (Flt(row, c) + ((Raw(row, c - RowBpp) + Raw(row - 1, c)) \div 2)) % 256

\* C4: every reconstructed row of filter type 4 (Paeth) holds, at every
\* position c, the filtered byte plus PaethPredictor(L, A, UL), mod 256, where
\* L, A and UL are the reconstructed left, above and upper-left bytes, each 0
\* when that neighbour does not exist.
C4_PaethAddsPredictor ==
    InFilter =>
        \A row \in 0..(r - 1) : FilterOf(row) = 4 =>
            \A c \in Positions :
               Raw(row, c) =
                  (Flt(row, c) + paeth_predictor(Raw(row, c - RowBpp), Raw(row - 1, c),
                                                 IF row = 0 THEN 0
                                                 ELSE Raw(row - 1, c - RowBpp))) % 256

----------------------------------------------------------------------------
(* The Paeth predictor *)

Dist(a, b) == IF a < b THEN b - a ELSE a - b

\* C5: paeth_predictor returns left when |p - left| is at most both other
\* distances, otherwise above when |p - above| <= |p - upper_left|, otherwise
\* upper_left, for p = left + above - upper_left computed without overflow.
C5_PaethSelection ==
    pc = "done" /\ paeth.ret # PANIC =>
        LET p == paeth.left + paeth.top - paeth.top_left
            dl == Dist(p, paeth.left)
            da == Dist(p, paeth.top)
            du == Dist(p, paeth.top_left)
        IN  /\ (dl <= da /\ dl <= du) => paeth.ret = paeth.left
            /\ (~(dl <= da /\ dl <= du) /\ da <= du) => paeth.ret = paeth.top
            /\ (~(dl <= da /\ dl <= du) /\ ~(da <= du)) => paeth.ret = paeth.top_left

\* above has won a tie with upper_left, left being farther, with operands
\* near 255
C5_Witness ==
    /\ pc = "done" /\ paeth.ret = paeth.top
    /\ paeth.top # paeth.top_left /\ paeth.top # paeth.left
    /\ paeth.left > 250
    /\ LET p == paeth.left + paeth.top - paeth.top_left
       IN  /\ Dist(p, paeth.top) = Dist(p, paeth.top_left)
           /\ Dist(p, paeth.left) > Dist(p, paeth.top)

----------------------------------------------------------------------------
(* The assembler claims *)

\* C6: after a successful decode the sample buffer has width * height *
\* channel_count bytes.
C6_DataLength ==
    result = "ok" =>
        Len(image.data) = image.width * image.height * Channels(image.color_type)

\* C7: a decode succeeds only when the first record was the header and the
\* stream held exactly one header record.
C7_HeaderFirstAndOnce ==
    result = "ok" => hist.ihdr_first /\ hist.ihdr = 1

\* C8: a PLTE record that arrives when a palette is stored makes the decode
\* fail; a stored palette is never replaced.
C8_SecondPaletteRejected ==
    [][/\ (hist'.plte = hist.plte + 1 /\ IsSome(image.plte)) => result' = "err"
       /\ IsSome(image.plte) => image'.plte = image.plte]_vars

\* a second PLTE record has been decoded and rejected, no background being stored
C8_Witness ==
    /\ result = "err" /\ hist.plte = 2
    /\ IsSome(image.plte) /\ IsNone(image.background)

\* C9: a bKGD record that arrives after one or more IDAT records, of whatever
\* payload length, makes the decode fail and is not stored.
C9_BackgroundAfterDataRejected ==
    [][(hist'.bkgd = hist.bkgd + 1 /\ hist.idat >= 1) =>
          (result' = "err" /\ image'.background = image.background)]_vars

\* C10: a PLTE record that arrives after a bKGD record has been accepted makes
\* the decode fail; once a background is stored without a palette, no palette
\* is stored.
C10_PaletteAfterBackgroundRejected ==
    [][/\ (hist'.plte = hist.plte + 1 /\ IsSome(image.background)) => result' = "err"
       /\ (IsSome(image.background) /\ IsNone(image.plte)) => IsNone(image'.plte)]_vars

\* the first PLTE record of a stream has been decoded and rejected, a
\* background being stored
C10_Witness ==
    /\ result = "err" /\ hist.plte = 1 /\ hist.bkgd = 1
    /\ IsSome(image.background) /\ IsNone(image.plte)

\* the bit depths lines 361-435 accept for a colour model
LegalDepths(color_type) ==
    CASE color_type = "Greyscale" -> {1, 2, 4, 8, 16}
      [] color_type = "PaletteIndex" -> {1, 2, 4, 8}
      [] color_type \in {"GreyscaleAlpha", "RGB", "RGBA"} -> {8, 16}

\* C11: after a successful decode a Palette-Indexed image has a palette that
\* is present, non-empty and of at most 2^(bit depth) entries, and a Greyscale
\* or Greyscale+Alpha image has no palette.
C11_PaletteRequirement ==
    result = "ok" =>
        /\ image.color_type = "PaletteIndex" =>
              /\ IsSome(image.plte)
              /\ Len(Unwrap(image.plte)) >= 1
              /\ Len(Unwrap(image.plte)) <= Pow2(image.bit_depth)
        /\ image.color_type \in {"Greyscale", "GreyscaleAlpha"} => IsNone(image.plte)

\* C12: decompression is reached, and a decode succeeds, only with a bit depth
\* that is legal for the colour model; a stream that was read up to its IEND
\* record with an illegal bit depth ends in an error and nothing was
\* decompressed.
C12_BitDepthLegal ==
    /\ (pc \in {"decompress", "filter"} \/ result = "ok") =>
          image.bit_depth \in LegalDepths(image.color_type)
    /\ (pc = "done" /\ hist.iend = 1
            /\ image.bit_depth \notin LegalDepths(image.color_type)) =>
          (result = "err" /\ filtered = <<>>)

\* a stream with an RGB header of bit depth 1 was read up to its IEND record
\* and rejected
C12_Witness ==
    /\ pc = "done" /\ result = "err" /\ hist.iend = 1 /\ hist.ihdr = 1
    /\ image.color_type = "RGB" /\ image.bit_depth = 1

\* C13: a tRNS record of n bytes that arrives for a Palette-Indexed image is
\* rejected with an error when no palette is stored or when n exceeds the
\* palette's m entries, and is otherwise stored as the n bytes followed by
\* m - n values of 255.
C13_IndexedTransparency ==
    [][(hist'.trns = hist.trns + 1 /\ image.color_type = "PaletteIndex") =>
          LET n == hist'.len
              m == IF IsSome(image.plte) THEN Len(Unwrap(image.plte)) ELSE 0
          IN  IF IsNone(image.plte) \/ n > m
              THEN result' = "err" /\ image'.transparancy = image.transparancy
              ELSE /\ result' = "none"
                   /\ image'.transparancy =
                         Some([kind |-> "PaletteIndex",
                               v |-> Payload(n) \o [i \in 1..(m - n) |-> 255]])]_vars

\* C14: no successfully decoded Greyscale+Alpha or RGB+Alpha image carries a
\* transparency descriptor.
C14_NoTransparencyWithAlpha ==
    (result = "ok" /\ image.color_type \in {"GreyscaleAlpha", "RGBA"}) =>
        IsNone(image.transparancy)

\* C15: the background of a successfully decoded image has the shape of the
\* image's colour model.
C15_BackgroundShape ==
    (result = "ok" /\ IsSome(image.background)) =>
        Unwrap(image.background).kind = BkgdKindFor(image.color_type)

\* C20: reverse_filter stops with an error at a row whose filter-type byte is
\* not in 0..4, whichever row it is: every row it has gone past, and every row
\* of a successful decode, has a filter-type byte in 0..4.
C20_UnknownFilterRejected ==
    InFilter =>
        /\ (pc = "done" /\ r < image.height /\ FilterOf(r) \notin 0..4) => result = "err"
        /\ \A row \in 0..(r - 1) : FilterOf(row) \in 0..4
        /\ result = "ok" => r = image.height

\* the second row has filter-type byte 5 and was refused after a first row of
\* filter type Sub had been reconstructed
C20_Witness ==
    /\ InFilter /\ pc = "done" /\ result = "err"
    /\ r = 1 /\ FilterOf(0) = 1 /\ FilterOf(1) = 5

----------------------------------------------------------------------------
(* The reader claims *)

\* the chunk at the read offset: its declared length, whether its length
\* field, payload and CRC lie within the buffer, its tag bytes
DeclaredLen == BE32(helper.data, helper.offset)
LenInBuffer == helper.offset + 4 <= Len(helper.data)
PayloadInBuffer == LenInBuffer /\ helper.offset + 8 + DeclaredLen <= Len(helper.data)
CrcInBuffer == LenInBuffer /\ helper.offset + 12 + DeclaredLen <= Len(helper.data)
NextTagBytes == SubSeq(helper.data, helper.offset + 5, helper.offset + 8)

\* C16: reading a chunk whose length field, payload or CRC ends past the end
\* of the buffer, a missing chunk after the last one included, ends the
\* decode with an error.
C16_PastEndIsError ==
    [][(pc = "chunks" /\ ~CrcInBuffer) => (pc' = "done" /\ result' = "err")]_vars

\* C17: opening a buffer that is shorter than 8 bytes or does not begin with
\* the signature ends the decode with an error, no chunk having been read and
\* no image built.
C17_BadSignatureIsError ==
    [][(pc = "open" /\ (Len(helper.data) < 8 \/ SubSeq(helper.data, 1, 8) # PNG_HDR)) =>
          (pc' = "done" /\ result' = "err" /\ hist' = hist /\ image' = image)]_vars

\* C18: reading a chunk that lies within the buffer up to the end of its
\* payload and whose tag is not one of the 14 tags ends the decode with an
\* error, whatever was read before it, and changes neither the image nor the
\* compressed data.
C18_UnknownTagIsError ==
    [][(pc = "chunks" /\ PayloadInBuffer
           /\ NextTagBytes \notin {TagBytes[t] : t \in KnownTags}) =>
          /\ pc' = "done" /\ result' = "err"
          /\ image' = image /\ compressed_data' = compressed_data]_vars

\* a chunk with the tag abCD was refused after one or more chunks had been
\* read and accepted
C18_Witness ==
    /\ pc = "done" /\ result = "err" /\ hist.n >= 2 /\ hist.ihdr = 1
    /\ SubSeq(helper.data, helper.offset - 3, helper.offset) = OtherTagBytes

\* C19: reading an IHDR chunk that lies within the buffer ends the decode with
\* an error when its declared length is not 13 or its colour byte is not one
\* of 0, 2, 3, 4, 6; a header record is handed over only for length 13.
C19_HeaderLength ==
    [][(pc = "chunks" /\ CrcInBuffer /\ NextTagBytes = TagBytes.IHDR) =>
          /\ DeclaredLen # 13 => result' = "err"
          /\ (DeclaredLen = 13 /\ helper.data[helper.offset + 18] \notin {0, 2, 3, 4, 6}) =>
                result' = "err"
          /\ hist'.ihdr = hist.ihdr + 1 => DeclaredLen = 13]_vars

\* C21: the cursor is 8 after the signature; a chunk that next() returns moves
\* it forward by 12 + the chunk's declared length, to a position within the
\* buffer; next() ends the stream on an IEND chunk and on nothing else; after
\* that the cursor stays where the IEND chunk ends, and the image and the
\* compressed data are those the loop builds from the buffer cut off there.
C21_Cursor ==
    [][/\ (pc = "open" /\ pc' = "chunks") => helper'.offset = 8
       /\ (pc = "chunks" /\ pc' \in {"chunks", "validate"}) =>
             /\ helper'.offset = helper.offset + 12 + DeclaredLen
             /\ helper'.offset > helper.offset
             /\ helper'.offset <= Len(helper.data)
       /\ (pc = "chunks" /\ CrcInBuffer /\ NextTagBytes = TagBytes.IEND /\ DeclaredLen = 0) =>
             pc' = "validate"
       /\ (pc = "chunks" /\ pc' = "validate") =>
             /\ NextTagBytes = TagBytes.IEND
             /\ LET cut == DecodeChunks(SubSeq(helper.data, 1, helper'.offset), 8,
                                        NewImage, <<>>)
                IN  /\ cut.status = "end"
                    /\ image' = cut.image
                    /\ compressed_data' = cut.compressed_data
       /\ pc \notin {"open", "chunks"} => helper' = helper
       /\ helper'.data = helper.data]_vars

\* the stream ended on an IEND chunk that followed another chunk and that is
\* followed by more bytes in the buffer
C21_Witness ==
    /\ pc = "validate" /\ hist.iend = 1 /\ hist.n >= 2
    /\ helper.offset < Len(helper.data)

\* C22: reverse_filter, given a buffer of height rows of equal length, ends
\* without a panic, whatever the filter types of the rows.
C22_FilterNeverPanics ==
    InFilter => result # "panic"

\* C23: for an 8-bit Greyscale, Greyscale+Alpha, RGB or RGB+Alpha image
\* Img::new returns a grid of height rows of width entries, whose entry at
\* (row, col) is the mean of the pixel_size bytes from offset
\* (row * width + col) * pixel_size of the decoded buffer.
C23_GridAveragesPixels ==
    (pc = "done" /\ image.bit_depth = 8 /\ image.color_type # "PaletteIndex") =>
        /\ result = "ok"
        /\ Len(grid) = image.height
        /\ \A row \in 0..(image.height - 1) :
              /\ Len(grid[row + 1]) = image.width
              /\ \A col \in 0..(image.width - 1) :
                    LET size == Channels(image.color_type)
                        first == ((row * image.width) + col) * size
                    IN  grid[row + 1][col + 1] =
                           Sum(SubSeq(image.data, first + 1, first + size)) \div size

====
